---- MODULE Spec2Model ----
(***************************************************************************)
(* NewsAudiocast: the AI helpers of ai_utils.py (batch summarisation,      *)
(* anchor rephrasing, the rate-limit logging policy), the feed selection   *)
(* of news_service.py, and the callers of the AI helpers in app.py and     *)
(* newscast_generator.py with the token log of token_db_logger.py, as      *)
(* state machines, and the password reset of app.py.                       *)
(*                                                                         *)
(* Texts are sequences of one-character strings, so that slicing,          *)
(* stripping and the regular-expression split are computed character by    *)
(* character as Python computes them.  Time is counted in whole hours,     *)
(* and in whole seconds for the password reset.                            *)
(***************************************************************************)
EXTENDS Integers, Sequences, FiniteSets, TLC

VARIABLES
    api_errors,   \* table api_errors: the timestamp column, in insertion order
    now,          \* the wall clock, UTC, in hours
    tz_offset,    \* hours the app server's local time is ahead of UTC
    ai,           \* the last call of summarize_texts_batch / rephrase_as_anchor
    pc,           \* per request: position inside _log_rate_limit_error_if_needed
    last_error,   \* per request: the row read by the policy's query
    news,         \* the last call of get_personalized_news
    session,      \* session['combined_summaries'] of the browser session
    api_token_usage,  \* table api_token_usage, in insertion order
    http,         \* the request being answered by a route of app.py, or the
                  \* user being processed by newscast_generator.py
    users,        \* table users: password and reset columns, by email
    clock,        \* the wall clock of the app server, in seconds
    outbox,       \* the mails send_email has delivered for forgot_password
    reset,        \* the password-reset request being answered
    used_tokens   \* history: the tokens that have changed a password

vars == <<api_errors, now, tz_offset, ai, pc, last_error, news,
          session, api_token_usage, http,
          users, clock, outbox, reset, used_tokens>>

-----------------------------------------------------------------------------
(* Bounds of the model *)

MaxArticles == 2      \* longest batch handed to summarize_texts_batch
MaxPieces == 3        \* longest model response, in pieces of ResponsePieces
MaxTime == 30         \* the clock stops ticking at this hour
MaxRequests == 3      \* requests that run the logging policy concurrently
MaxFeedLen == 11      \* most entries a feed returns
MaxEntries == 2       \* most entries get_personalized_news hands to a caller
MaxReplyPieces == 2   \* longest model response a caller is given, in pieces
MaxTokenRows == 2     \* requests are answered while api_token_usage is shorter
MaxMails == 2         \* most reset mails delivered
MaxSeconds == 1       \* seconds the clock ticks one by one after a full hour

(* Program constants *)

TRUNCATE_LEN == 150   \* text[:150]
COOLDOWN_HOURS == 23  \* timedelta(hours=23)
SEARCH_LIMIT == 10    \* _parse_feed_and_get_entries(full_url, 10); category_limit = 10
PAIR_LIMIT == 5       \* category_limit = 5; topic_limit = 5
SUMMARY_INPUT_LEN == 3000  \* plain_text[:3000]

-----------------------------------------------------------------------------
(* Python values *)

None == [none |-> TRUE]

\* None where the other values are strings, and where they are texts
NoStr == "<None>"

NoText == << "<None>" >>

Str(n, c) == [i \in 1..n |-> c]

IsSpace(c) == c \in {" ", "\n", "\t"}

IsDigit(c) == c \in {"0", "1", "2", "3", "4", "5", "6", "7", "8", "9"}

\* str.lower() on the letters the model's texts use
Lower(c) ==
    CASE c = "S" -> "s" [] c = "U" -> "u" [] c = "M" -> "m"
      [] c = "A" -> "a" [] c = "R" -> "r" [] c = "Y" -> "y"
      [] c = "B" -> "b" [] OTHER -> c

RECURSIVE LStrip(_)
LStrip(s) == IF s # <<>> /\ IsSpace(Head(s)) THEN LStrip(Tail(s)) ELSE s

RECURSIVE RStrip(_)
RStrip(s) ==
    IF s # <<>> /\ IsSpace(s[Len(s)]) THEN RStrip(SubSeq(s, 1, Len(s) - 1)) ELSE s

\* str.strip()
Strip(s) == RStrip(LStrip(s))

\* text[:n]
Prefix(s, n) == SubSeq(s, 1, IF Len(s) < n THEN Len(s) ELSE n)

-----------------------------------------------------------------------------
(* re.split(r"SUMMARY\s*\d+:", text, flags=re.IGNORECASE) *)

SummaryWord == <<"s", "u", "m", "m", "a", "r", "y">>

MatchesWordAt(s, i) ==
    /\ i + Len(SummaryWord) - 1 <= Len(s)
    /\ \A k \in 1..Len(SummaryWord) : Lower(s[i + k - 1]) = SummaryWord[k]

\* the first position >= i that holds no whitespace (\s* is greedy)
RECURSIVE SkipSpaces(_, _)
SkipSpaces(s, i) ==
    IF i <= Len(s) /\ IsSpace(s[i]) THEN SkipSpaces(s, i + 1) ELSE i

\* the first position >= i that holds no digit (\d+ is greedy)
RECURSIVE SkipDigits(_, _)
SkipDigits(s, i) ==
    IF i <= Len(s) /\ IsDigit(s[i]) THEN SkipDigits(s, i + 1) ELSE i

\* the position after the marker that starts at i, or 0 when none starts there
MarkerEnd(s, i) ==
    IF ~MatchesWordAt(s, i) THEN 0
    ELSE LET j == SkipSpaces(s, i + Len(SummaryWord))
             k == SkipDigits(s, j)
         IN  IF k > j /\ k <= Len(s) /\ s[k] = ":" THEN k + 1 ELSE 0

RECURSIVE SplitFrom(_, _, _, _)
SplitFrom(s, i, cur, acc) ==
    IF i > Len(s) THEN Append(acc, cur)
    ELSE IF MarkerEnd(s, i) > 0
         THEN SplitFrom(s, MarkerEnd(s, i), <<>>, Append(acc, cur))
         ELSE SplitFrom(s, i + 1, Append(cur, s[i]), acc)

ReSplit(s) == SplitFrom(s, 1, <<>>, <<>>)

-----------------------------------------------------------------------------
(* Inputs: article texts and model responses *)

\* n characters: c everywhere but a final "z"
Article(c, n) == [i \in 1..n |-> IF i = n THEN "z" ELSE c]

ArticleTexts ==
    { Article("A", 2), Article("B", TRUNCATE_LEN), Article("A", TRUNCATE_LEN + 1) }

RECURSIVE SeqsUpTo(_, _)
SeqsUpTo(S, n) ==
    IF n = 0 THEN { <<>> }
    ELSE LET shorter == SeqsUpTo(S, n - 1)
         IN  shorter \cup { Append(s, x) : s \in shorter, x \in S }

BatchInputs == SeqsUpTo(ArticleTexts, MaxArticles)

ResponsePieces ==
    { <<"S", "U", "M", "M", "A", "R", "Y", " ", "1", ":">>,
      <<"\n", "s", "u", "m", "m", "a", "r", "y", "2", ":", " ", "b">>,
      <<"S", "u", "m", "m", "a", "r", "y">>,
      <<" ", "\n", "1", "2", ":">>,
      <<" ", "a", " ">>,
      <<"b">> }

RECURSIVE Concat(_)
Concat(ps) == IF ps = <<>> THEN <<>> ELSE Head(ps) \o Concat(Tail(ps))

ResponseTexts == { Concat(ps) : ps \in SeqsUpTo(ResponsePieces, MaxPieces) }

Usages == { [prompt_tokens |-> 7, completion_tokens |-> 3, total_tokens |-> 10] }

\* what generate_content hands back: a response whose .text and
\* .usage_metadata may or may not be readable
Responses ==
    { [text |-> t, usage_metadata |-> u, text_ok |-> TRUE, usage_ok |-> TRUE] :
          t \in ResponseTexts, u \in Usages }
    \cup
    { [text |-> <<>>, usage_metadata |-> u, text_ok |-> FALSE, usage_ok |-> TRUE] :
          u \in Usages }
    \cup
    { [text |-> <<>>, usage_metadata |-> None, text_ok |-> TRUE, usage_ok |-> FALSE] }

\* how model.generate_content ends
Outcomes == { "ok", "quota", "error" }

\* how the log store behaves during one run of the logging policy
DbModes == { "ok", "query_error", "commit_error" }

ANCHOR_FALLBACK ==
    <<"C", "o", "u", "l", "d", " ", "n", "o", "t", " ", "g", "e", "n", "e", "r", "a", "t", "e", " ", "t", "h", "e", " ", "n", "e", "w", "s", " ", "a", "n", "c", "h", "o", "r", " ", "s", "c", "r", "i", "p", "t", " ", "a", "t", " ", "t", "h", "i", "s", " ", "t", "i", "m", "e", ".">>

-----------------------------------------------------------------------------
(* ai_utils.py *)

Return(value, usage) == [kind |-> "return", value |-> value, usage |-> usage]

Raise(exc) == [kind |-> "raise", exc |-> exc]

\* datetime.now(): the app server's naive local time
LocalNow(utc) == utc + tz_offset

\* db.query(ApiError).order_by(ApiError.timestamp.desc()).first()
MostRecentError(errs) ==
    IF errs = <<>> THEN None
    ELSE [timestamp |->
             CHOOSE t \in { errs[i] : i \in DOMAIN errs } :
                 \A i \in DOMAIN errs : errs[i] <= t]

\* not last_error or (datetime.now() - last_error.timestamp) > timedelta(hours=23)
ShouldLog(last, local_now) ==
    last = None \/ local_now - last.timestamp > COOLDOWN_HOURS

\* as InsertError, but the row is written twice
InsertError_Twice(errs, utc) == Append(Append(errs, utc), utc)

\* db.add(ApiError(...)); db.commit(): the timestamp is the server default,
\* the database's current time (UTC, as display_news prints it)
InsertError(errs, utc) == Append(errs, utc)

\* as LogRateLimitErrorIfNeeded, but the row of a failing commit is stored
LogRateLimitErrorIfNeeded_CommitLands(errs, utc, db) ==
    IF db = "query_error" THEN errs
    ELSE IF ShouldLog(MostRecentError(errs), LocalNow(utc))
         THEN InsertError(errs, utc)
         ELSE errs

\* _log_rate_limit_error_if_needed run without interruption: the rows after it
LogRateLimitErrorIfNeeded(errs, utc, db) ==
    IF db = "query_error" THEN errs
    ELSE IF ShouldLog(MostRecentError(errs), LocalNow(utc))
         THEN IF db = "commit_error" THEN errs ELSE InsertError(errs, utc)
         ELSE errs

\* as CallGoogleApi, but the quota signal is swallowed like any other failure
\* and every failure is logged as a rate-limit event
CallGoogleApi_CatchAll(outcome, response, errs, utc, db) ==
    IF outcome \in {"quota", "error"}
    THEN [ret |-> Return(None, None),
          errors |-> LogRateLimitErrorIfNeeded(errs, utc, db),
          log_runs |-> 1]
    ELSE [ret |-> Return(response, None), errors |-> errs, log_runs |-> 0]

\* _call_google_api: what the caller gets, the rows of api_errors afterwards,
\* and how often the logging policy ran
CallGoogleApi(outcome, response, errs, utc, db) ==
    CASE outcome = "quota" ->
            [ret |-> Raise("RateLimitException"),
             errors |-> LogRateLimitErrorIfNeeded(errs, utc, db),
             log_runs |-> 1]
      [] outcome = "error" ->
            [ret |-> Return(None, None), errors |-> errs, log_runs |-> 0]
      [] OTHER ->
            [ret |-> Return(response, None), errors |-> errs, log_runs |-> 0]

UsageMetadata(response) ==
    [prompt_tokens |-> response.usage_metadata.prompt_tokens,
     completion_tokens |-> response.usage_metadata.completion_tokens,
     total_tokens |-> response.usage_metadata.total_tokens]

\* as Fallback, but an article of exactly 150 characters is cut too
Fallback_From150(text) ==
    IF Len(text) >= TRUNCATE_LEN
    THEN Prefix(text, TRUNCATE_LEN) \o <<".", ".", ".">>
    ELSE text

\* (text[:150] + '...') if len(text) > 150 else text
Fallback(text) ==
    IF Len(text) > TRUNCATE_LEN
    THEN Prefix(text, TRUNCATE_LEN) \o <<".", ".", ".">>
    ELSE text

FallbackSummaries(texts) == [i \in 1..Len(texts) |-> Fallback(texts[i])]

\* as CleanedSummaries, but the segments are left as they were split
CleanedSummaries_Untrimmed(text) == Tail(ReSplit(Strip(text)))

\* re.split(...)[1:], each segment stripped
CleanedSummaries(text) ==
    LET summaries == Tail(ReSplit(Strip(text)))
    IN  [i \in 1..Len(summaries) |-> Strip(summaries[i])]

\* CleanedSummaries of every response text of the model, computed once
CleanedSummariesOf == [t \in ResponseTexts |-> CleanedSummaries(t)]

\* as ParseBatchResponse, without the check of the number of segments
ParseBatchResponse_NoCountCheck(texts, response) ==
    IF ~response.usage_ok \/ ~response.text_ok
    THEN Return(FallbackSummaries(texts), None)
    ELSE Return(CleanedSummariesOf[response.text], UsageMetadata(response))

\* as ParseBatchResponse, but surplus segments are dropped instead of rejected
ParseBatchResponse_DropSurplus(texts, response) ==
    IF ~response.usage_ok \/ ~response.text_ok
    THEN Return(FallbackSummaries(texts), None)
    ELSE LET cleaned_summaries == CleanedSummariesOf[response.text]
         IN  IF Len(cleaned_summaries) >= Len(texts)
             THEN Return(Prefix(cleaned_summaries, Len(texts)), UsageMetadata(response))
             ELSE Return(FallbackSummaries(texts), None)

\* summarize_texts_batch from the response on: the try block and its handler
ParseBatchResponse(texts, response) ==
    IF ~response.usage_ok \/ ~response.text_ok
    THEN Return(FallbackSummaries(texts), None)
    ELSE LET cleaned_summaries == CleanedSummariesOf[response.text]
         IN  IF Len(cleaned_summaries) = Len(texts)
             THEN Return(cleaned_summaries, UsageMetadata(response))
             ELSE Return(FallbackSummaries(texts), None)

\* as SummarizeTextsBatchCall, without the early return on an empty list
SummarizeTextsBatchCall_NoEmptyGuard(texts, outcome, response, errs, utc, db) ==
    LET r == CallGoogleApi(outcome, response, errs, utc, db)
    IN  [op |-> "summarize_texts_batch", texts |-> texts, outcome |-> outcome,
         response |-> response, db |-> db, at |-> utc, api_calls |-> 1,
         log_runs |-> r.log_runs,
         errors_before |-> errs, errors_after |-> r.errors,
         ret |-> IF r.ret.kind = "raise" THEN r.ret
                 ELSE IF r.ret.value = None
                      THEN Return(FallbackSummaries(texts), None)
                      ELSE ParseBatchResponse(texts, response)]

\* summarize_texts_batch(texts), as a record of the whole call
SummarizeTextsBatchCall(texts, outcome, response, errs, utc, db) ==
    IF texts = <<>>
    THEN [op |-> "summarize_texts_batch", texts |-> texts, outcome |-> "not_called",
          response |-> None, db |-> "ok", at |-> utc, api_calls |-> 0, log_runs |-> 0,
          errors_before |-> errs, errors_after |-> errs,
          ret |-> Return(<<>>, None)]
    ELSE LET r == CallGoogleApi(outcome, response, errs, utc, db)
         IN  [op |-> "summarize_texts_batch", texts |-> texts, outcome |-> outcome,
              response |-> response, db |-> db, at |-> utc, api_calls |-> 1,
              log_runs |-> r.log_runs,
              errors_before |-> errs, errors_after |-> r.errors,
              ret |-> IF r.ret.kind = "raise" THEN r.ret
                      ELSE IF r.ret.value = None
                           THEN Return(FallbackSummaries(texts), None)
                           ELSE ParseBatchResponse(texts, response)]

\* as AnchorFromResponse, but the script is stripped before it is returned
AnchorFromResponse_Stripped(response) ==
    IF ~response.usage_ok THEN Raise("AttributeError")
    ELSE IF ~response.text_ok THEN Raise("ValueError")
    ELSE Return(Strip(response.text), UsageMetadata(response))

\* rephrase_as_anchor from the response on
AnchorFromResponse(response) ==
    IF ~response.usage_ok THEN Raise("AttributeError")
    ELSE IF ~response.text_ok THEN Raise("ValueError")
    ELSE Return(response.text, UsageMetadata(response))

\* rephrase_as_anchor(text), as a record of the whole call
RephraseAsAnchorCall(text, outcome, response, errs, utc, db) ==
    LET r == CallGoogleApi(outcome, response, errs, utc, db)
    IN  [op |-> "rephrase_as_anchor", texts |-> <<text>>, outcome |-> outcome,
         response |-> response, db |-> db, at |-> utc, api_calls |-> 1,
         log_runs |-> r.log_runs,
         errors_before |-> errs, errors_after |-> r.errors,
         ret |-> IF r.ret.kind = "raise" THEN r.ret
                 ELSE IF r.ret.value = None
                      THEN Return(ANCHOR_FALLBACK, None)
                      ELSE AnchorFromResponse(response)]

\* the combinations of outcome, response and store behaviour that differ:
\* only a returned response has content, only a quota signal reaches the store
CallCases ==
    { <<"ok", r, "ok">> : r \in Responses }
    \cup { <<"error", None, "ok">> }
    \cup { <<"quota", None, d>> : d \in DbModes }

AnchorInputs == { <<>>, Article("A", 2) }

\* no call of the AI helpers is being looked at
NoCall ==
    [op |-> "none", texts |-> <<>>, outcome |-> "not_called", response |-> None,
     db |-> "ok", at |-> 0, api_calls |-> 0, log_runs |-> 0,
     errors_before |-> <<>>, errors_after |-> <<>>, ret |-> Return(<<>>, None)]

\* no call of get_personalized_news is being looked at
NoNews ==
    [user |-> None, search_query |-> NoText, country_code |-> NoStr, category |-> NoStr,
     prefs |-> "ok", fetched |-> <<>>, ret |-> Return(<<>>, None), called |-> FALSE]

\* no request is being answered
NoHttp ==
    [route |-> "none", status |-> 0, body |-> "none", error |-> NoStr,
     user_id |-> 0, entries |-> <<>>, call |-> NoCall, summaries |-> <<>>,
     script |-> NoText, last_error_time |-> NoStr]

\* the application before its first request
AppIdle ==
    /\ session = NoText
    /\ api_token_usage = <<>>
    /\ http = NoHttp

\* reset_token is NULL, reset_token_expiry is NULL
NoToken == [email |-> NoStr, iat |-> 0 - 1, signed |-> FALSE]

NoExpiry == 0 - 1

\* generate_password_hash(password)
GeneratePasswordHash(password) == [hash_of |-> password]

\* the emails of the registered users
RegisteredEmails == { "a@x", "b@x" }

\* no password-reset request is being answered
NoReset ==
    [route |-> "none", method |-> "GET", email |-> NoStr, token |-> NoToken,
     status |-> 0, flash |-> "none", page |-> "none", changed |-> FALSE]

\* the registered users before the first password-reset request
ResetIdle ==
    /\ users = [e \in RegisteredEmails |->
                   [password |-> GeneratePasswordHash("p0"),
                    reset_token |-> NoToken, reset_token_expiry |-> NoExpiry]]
    /\ clock = 0
    /\ outbox = {}
    /\ reset = NoReset
    /\ used_tokens = {}

Procs == 1..MaxRequests

\* a request calls summarize_texts_batch and the call runs to its end
SummarizeTextsBatchOn(inputs, cases) ==
    /\ ai = NoCall
    /\ \E texts \in inputs, c \in cases :
           LET call == SummarizeTextsBatchCall(texts, c[1], c[2], api_errors, now, c[3])
           IN  /\ ai' = call
               /\ api_errors' = call.errors_after
    /\ UNCHANGED <<now, tz_offset, pc, last_error, news, session, api_token_usage, http,
                   users, clock, outbox, reset, used_tokens>>

\* a request calls rephrase_as_anchor and the call runs to its end
RephraseAsAnchorOn(inputs, cases) ==
    /\ ai = NoCall
    /\ \E text \in inputs, c \in cases :
           LET call == RephraseAsAnchorCall(text, c[1], c[2], api_errors, now, c[3])
           IN  /\ ai' = call
               /\ api_errors' = call.errors_after
    /\ UNCHANGED <<now, tz_offset, pc, last_error, news, session, api_token_usage, http,
                   users, clock, outbox, reset, used_tokens>>

SummarizeTextsBatch == SummarizeTextsBatchOn(BatchInputs, CallCases)

RephraseAsAnchor == RephraseAsAnchorOn(AnchorInputs, CallCases)

InitAI ==
    /\ api_errors \in { <<>>, <<0>> }
    /\ now = 0
    /\ tz_offset = 0
    /\ ai = NoCall
    /\ pc = [p \in Procs |-> "idle"]
    /\ last_error = [p \in Procs |-> None]
    /\ news = NoNews
    /\ AppIdle
    /\ ResetIdle

\* the caller has taken the result; the next request may call
CallerDone ==
    /\ ai # NoCall
    /\ ai' = NoCall
    /\ UNCHANGED <<api_errors, now, tz_offset, pc, last_error, news, session, api_token_usage, http,
                   users, clock, outbox, reset, used_tokens>>

NextAI == SummarizeTextsBatch \/ RephraseAsAnchor \/ CallerDone

SpecAI == InitAI /\ [][NextAI]_vars

-----------------------------------------------------------------------------
(* The rate-limit log over time: quota signals one after the other (SpecRate) *)

\* offsets of the app server's local time from UTC, in hours
TzOffsets == { -5, 0, 5 }

QuotaCases == { c \in CallCases : c[1] = "quota" }

\* a request whose model call hits the quota
BatchHitsQuota == SummarizeTextsBatchOn({ <<Article("A", 2)>> }, QuotaCases)

AnchorHitsQuota == RephraseAsAnchorOn({ Article("A", 2) }, QuotaCases)

\* an hour passes between two requests
Tick ==
    /\ ai = NoCall
    /\ now < MaxTime
    /\ now' = now + 1
    /\ UNCHANGED <<api_errors, tz_offset, ai, pc, last_error, news, session, api_token_usage, http,
                   users, clock, outbox, reset, used_tokens>>

InitRate ==
    /\ api_errors = <<>>
    /\ now = 0
    /\ tz_offset \in TzOffsets
    /\ ai = NoCall
    /\ pc = [p \in Procs |-> "idle"]
    /\ last_error = [p \in Procs |-> None]
    /\ news = NoNews
    /\ AppIdle
    /\ ResetIdle

NextRate == BatchHitsQuota \/ AnchorHitsQuota \/ CallerDone \/ Tick

SpecRate == InitRate /\ [][NextRate]_vars

-----------------------------------------------------------------------------
(* The logging policy run by overlapping requests (SpecRace): the query and *)
(* the commit are separate round trips to the database                      *)

\* request p: db.query(...).first() and the decision taken on its result
PolicyQuery(p) ==
    /\ pc[p] = "idle"
    /\ last_error' = [last_error EXCEPT ![p] = MostRecentError(api_errors)]
    /\ pc' = [pc EXCEPT ![p] =
                 IF ShouldLog(MostRecentError(api_errors), LocalNow(now))
                 THEN "commit" ELSE "closed"]
    /\ UNCHANGED <<api_errors, now, tz_offset, ai, news, session, api_token_usage, http,
                   users, clock, outbox, reset, used_tokens>>

\* request p: db.add(new_error); db.commit()
PolicyCommit(p) ==
    /\ pc[p] = "commit"
    /\ api_errors' = InsertError(api_errors, now)
    /\ pc' = [pc EXCEPT ![p] = "closed"]
    /\ UNCHANGED <<now, tz_offset, ai, last_error, news, session, api_token_usage, http,
                   users, clock, outbox, reset, used_tokens>>

InitRace ==
    /\ now \in { 0, COOLDOWN_HOURS + 1 }
    /\ api_errors \in { <<>>, <<0>> }
    /\ tz_offset \in TzOffsets
    /\ ai = NoCall
    /\ pc = [p \in Procs |-> "idle"]
    /\ last_error = [p \in Procs |-> None]
    /\ news = NoNews
    /\ AppIdle
    /\ ResetIdle

NextRace == \E p \in Procs : PolicyQuery(p) \/ PolicyCommit(p)

SpecRace == InitRace /\ [][NextRace]_vars

-----------------------------------------------------------------------------
(* utils.py, constants.py: feed URLs *)

\* a URL of news.google.com: the path, the value of q (NoText without a query
\* string) and what build_full_url appended
Url(path, q) == [path |-> path, q |-> q, sep |-> NoStr, gl |-> NoStr, hl |-> NoStr]

NEWS_FEEDS ==
    "Top Stories" :> Url("rss", NoText) @@
    "World" :> Url("rss/headlines/section/topic/WORLD", NoText) @@
    "Business" :> Url("rss/headlines/section/topic/BUSINESS", NoText) @@
    "Technology" :> Url("rss/headlines/section/topic/TECHNOLOGY", NoText) @@
    "Sports" :> Url("rss/headlines/section/topic/SPORTS", NoText) @@
    "Fashion" :> Url("rss/search", <<"f", "a", "s", "h", "i", "o", "n">>) @@
    "AI" :> Url("rss/search", <<"A", "I">>) @@
    "Defence" :> Url("rss/search", <<"d", "e", "f", "e", "n", "c", "e">>) @@
    "Information Technology" :> Url("rss/search", <<"i", "n", "f", "o", "r", "m", "a", "t", "i", "o", "n", "%", "2", "0", "t", "e", "c", "h", "n", "o", "l", "o", "g", "y">>) @@
    "Weather" :> Url("rss/search", <<"w", "e", "a", "t", "h", "e", "r">>)

\* '?' in base_url
HasQueryString(url) == url.q # NoText

\* truthiness of an optional string, and of an optional text
Truthy(x) == x # NoStr /\ x # ""

TruthyText(x) == x # NoText /\ x # <<>>

\* build_full_url(base_url, region)
BuildFullUrl(base_url, region) ==
    IF Truthy(region)
    THEN [base_url EXCEPT !.sep = IF HasQueryString(base_url) THEN "&" ELSE "?",
                          !.gl = region,
                          !.hl = "en"]
    ELSE base_url

\* urllib.parse.quote on the characters the model's queries use
RECURSIVE Quote(_)
Quote(s) ==
    IF s = <<>> THEN <<>>
    ELSE (IF Head(s) = " " THEN <<"%", "2", "0">> ELSE <<Head(s)>>) \o Quote(Tail(s))

\* " OR ".join(topics)
RECURSIVE JoinOr(_)
JoinOr(topics) ==
    IF topics = <<>> THEN <<>>
    ELSE IF Len(topics) = 1 THEN Head(topics)
    ELSE Head(topics) \o <<" ", "O", "R", " ">> \o JoinOr(Tail(topics))

\* f"https://news.google.com/rss/search?q={quote(query)}"
SearchUrl(query) == Url("rss/search", Quote(query))

-----------------------------------------------------------------------------
(* news_service.py *)

\* what feedparser.parse finds at a URL: FeedFails when it raises, else the
\* number of entries of the feed
FeedFails == 0 - 1

FeedLens == { 0, 4, PAIR_LIMIT, PAIR_LIMIT + 1, SEARCH_LIMIT, MaxFeedLen }

FeedResults == { FeedFails } \cup FeedLens

\* the entries of a feed of n entries
FeedEntries(url, n) == [i \in 1..n |-> [url |-> url, idx |-> i]]

\* as ParseFeedAndGetEntries, but a feed that fails yields an entry
ParseFeedAndGetEntries_ErrorEntry(url, limit, found) ==
    IF found = FeedFails THEN FeedEntries(url, 1)
    ELSE Prefix(FeedEntries(url, found), limit)

\* as FinalRegionCode, but the IP-derived country code comes first
FinalRegionCode_IpFirst(user, country_code) ==
    IF Truthy(country_code) THEN country_code
    ELSE IF user # None /\ Truthy(user.preferred_region) THEN user.preferred_region
    ELSE NoStr

\* as ParseFeedAndGetEntries, but the limit is not applied
ParseFeedAndGetEntries_NoLimit(url, limit, found) ==
    IF found = FeedFails THEN <<>> ELSE FeedEntries(url, found)

\* _parse_feed_and_get_entries(feed_url, limit), the feed holding `found`
ParseFeedAndGetEntries(url, limit, found) ==
    IF found = FeedFails THEN <<>> ELSE Prefix(FeedEntries(url, found), limit)

Fetch(url, limit, found) == [url |-> url, limit |-> limit, found |-> found]

\* final_region_code
FinalRegionCode(user, country_code) ==
    IF user # None /\ Truthy(user.preferred_region) THEN user.preferred_region
    ELSE IF Truthy(country_code) THEN country_code
    ELSE NoStr

\* as CategoryLimit, but a category is always given half of the page
CategoryLimit_Five(has_category, has_topics) ==
    IF has_category THEN PAIR_LIMIT ELSE 0

\* as TopicLimit, but the topics are always given a whole page
TopicLimit_Ten(has_category, has_topics) ==
    IF has_topics THEN SEARCH_LIMIT ELSE 0

\* the limits of the preference blend
CategoryLimit(has_category, has_topics) ==
    IF has_category /\ has_topics THEN PAIR_LIMIT
    ELSE IF has_category THEN SEARCH_LIMIT
    ELSE 0

TopicLimit(has_category, has_topics) ==
    IF has_category /\ has_topics THEN PAIR_LIMIT
    ELSE IF has_category THEN 0
    ELSE IF has_topics THEN SEARCH_LIMIT
    ELSE 0

\* the fetches of the preference blend, in order: [url, limit]
BlendPlan(user, region) ==
    LET has_category == Truthy(user.preferred_category)
                            /\ user.preferred_category \in DOMAIN NEWS_FEEDS
        has_topics == user.topics # <<>>
        category_limit == CategoryLimit(has_category, has_topics)
        topic_limit == TopicLimit(has_category, has_topics)
    IN  (IF category_limit > 0
         THEN << [url |-> BuildFullUrl(NEWS_FEEDS[user.preferred_category], region),
                  limit |-> category_limit] >>
         ELSE <<>>)
        \o
        (IF topic_limit > 0
         THEN << [url |-> BuildFullUrl(SearchUrl(JoinOr(user.topics)), region),
                  limit |-> topic_limit] >>
         ELSE <<>>)

RECURSIVE EntriesOf(_)
EntriesOf(fetched) ==
    IF fetched = <<>> THEN <<>>
    ELSE ParseFeedAndGetEntries(Head(fetched).url, Head(fetched).limit, Head(fetched).found)
             \o EntriesOf(Tail(fetched))

\* as SearchPath, but only taken for a user without preferences
SearchPath_AfterPreferences(user, search_query) ==
    /\ TruthyText(search_query)
    /\ (user = None \/ (~Truthy(user.preferred_category) /\ user.topics = <<>>))

\* if search_query:
SearchPath(user, search_query) == TruthyText(search_query)

\* as CategoryPath, but only for the categories that have a section feed
CategoryPath_KnownSection(category) ==
    /\ Truthy(category) /\ category \in DOMAIN NEWS_FEEDS
    /\ ~HasQueryString(NEWS_FEEDS[category])

\* if category and category in NEWS_FEEDS:
CategoryPath(category) == Truthy(category) /\ category \in DOMAIN NEWS_FEEDS

\* as NeedsDefault, but the default step always runs
NeedsDefault_Always(entries) == TRUE

\* if not combined_entries_with_logos: (line 137)
NeedsDefault(entries) == entries = <<>>

\* what the preference lookup of the blend does: "ok", "db_error" (an
\* SQLAlchemyError) or "error" (any other exception)
PrefsModes == { "ok", "db_error", "error" }

\* as Swallowed, but no exception of the blend is caught
Swallowed_None(prefs) == FALSE

\* as Swallowed, but every exception of the blend is caught
Swallowed_Any(prefs) == prefs # "ok"

\* except SQLAlchemyError (line 134): the exceptions the blend swallows
Swallowed(prefs) == prefs = "db_error"

\* get_personalized_news (the function under the cache decorator) once the
\* user row is known: the fetches made and what the caller gets.  `found`
\* gives what each fetch finds, in order; `prefs` how the preference read ends
PersonalizedNews(user, search_query, country_code, category, prefs, found) ==
    LET region == FinalRegionCode(user, country_code)
    IN  IF SearchPath(user, search_query)
        THEN LET f == << Fetch(BuildFullUrl(SearchUrl(search_query), region),
                               SEARCH_LIMIT, found[1]) >>
             IN  [fetched |-> f, ret |-> Return(EntriesOf(f), None)]
        ELSE IF CategoryPath(category)
        THEN LET f == << Fetch(BuildFullUrl(NEWS_FEEDS[category], region),
                               SEARCH_LIMIT, found[1]) >>
             IN  [fetched |-> f, ret |-> Return(EntriesOf(f), None)]
        ELSE IF user # None /\ prefs # "ok" /\ ~Swallowed(prefs)
        THEN [fetched |-> <<>>, ret |-> Raise("Exception")]
        ELSE LET plan == IF user # None /\ prefs = "ok"
                         THEN BlendPlan(user, region) ELSE <<>>
                 blend == [i \in 1..Len(plan) |->
                              Fetch(plan[i].url, plan[i].limit, found[i])]
                 f == IF NeedsDefault(EntriesOf(blend))
                      THEN Append(blend,
                                  Fetch(BuildFullUrl(NEWS_FEEDS["Top Stories"], region),
                                        SEARCH_LIMIT, found[Len(plan) + 1]))
                      ELSE blend
             IN  [fetched |-> f, ret |-> Return(EntriesOf(f), None)]

\* the rows of table users the requests are made for
Users ==
    { [preferred_region |-> r, preferred_category |-> c, topics |-> t] :
          r \in { NoStr, "IN" },
          c \in { NoStr, "World", "AI", "Top Stories", "Bogus" },
          t \in { <<>>, << <<"a">>, <<"b", " ", "c">> >> } }

SearchQueries == { NoText, <<>>, <<"a", " ", "i">> }

CountryCodes == { NoStr, "US" }

Categories == { NoStr, "World", "AI", "Bogus" }

\* the query of the user row raised an SQLAlchemyError
LookupFails == [error |-> "SQLAlchemyError"]

\* db.query(User).filter(User.id == user_id).first() if user_id else None:
\* None (no user_id, or no such row), a row, or LookupFails
Lookups == { None, LookupFails } \cup Users

\* whether the call reads the user's preferences (lines 105-108)
ReadsPreferences(user, search_query, category) ==
    /\ user # None /\ user # LookupFails
    /\ ~SearchPath(user, search_query)
    /\ ~CategoryPath(category)

\* the most fetches the call can make
FetchesAtMost(user, search_query, country_code, category, prefs) ==
    IF user = LookupFails THEN 0
    ELSE IF SearchPath(user, search_query) \/ CategoryPath(category) THEN 1
    ELSE IF user = None \/ (prefs # "ok" /\ Swallowed(prefs)) THEN 1
    ELSE IF prefs # "ok" THEN 0
    ELSE Len(BlendPlan(user, FinalRegionCode(user, country_code))) + 1

\* a request calls get_personalized_news and the call runs to its end
GetPersonalizedNews ==
    /\ news = NoNews
    /\ UNCHANGED <<api_errors, now, tz_offset, ai, pc, last_error, session, api_token_usage, http,
                   users, clock, outbox, reset, used_tokens>>
    /\ \E user \in Lookups, search_query \in SearchQueries,
          country_code \in CountryCodes, category \in Categories :
        \E prefs \in (IF user \in Users THEN PrefsModes ELSE { "ok" }) :
            \E found \in [1..FetchesAtMost(user, search_query, country_code,
                                            category, prefs) -> FeedResults] :
                LET r == IF user = LookupFails
                         THEN [fetched |-> <<>>, ret |-> Raise("SQLAlchemyError")]
                         ELSE PersonalizedNews(user, search_query, country_code,
                                               category, prefs, found)
                IN  \* what a fetch that is not made would find is left fixed
                    /\ \A i \in Len(r.fetched) + 1 .. Len(found) : found[i] = FeedFails
                    /\ news' = [user |-> user, search_query |-> search_query,
                                country_code |-> country_code, category |-> category,
                                prefs |-> prefs, fetched |-> r.fetched,
                                ret |-> r.ret, called |-> TRUE]

\* the caller has taken the entries
NewsDone ==
    /\ news # NoNews
    /\ news' = NoNews
    /\ UNCHANGED <<api_errors, now, tz_offset, ai, pc, last_error, session, api_token_usage, http,
                   users, clock, outbox, reset, used_tokens>>

InitNews ==
    /\ api_errors = <<>>
    /\ now = 0
    /\ tz_offset = 0
    /\ ai = NoCall
    /\ pc = [p \in Procs |-> "idle"]
    /\ last_error = [p \in Procs |-> None]
    /\ news = NoNews
    /\ AppIdle
    /\ ResetIdle

NextNews == GetPersonalizedNews \/ NewsDone

SpecNews == InitNews /\ [][NextNews]_vars

-----------------------------------------------------------------------------
(* token_db_logger.py *)

\* the parameters of log_token_usage, and those without a default
LOG_TOKEN_USAGE_PARAMS ==
    { "model_name", "prompt_tokens", "completion_tokens", "total_tokens",
      "user_id", "feature_name" }

LOG_TOKEN_USAGE_REQUIRED ==
    { "model_name", "prompt_tokens", "completion_tokens", "total_tokens" }

\* how the SQLite file of the token log behaves during one insert
TokenDbModes == { "ok", "error" }

\* the columns of api_token_usage the caller supplies
TokenRow(user_id, feature_name, usage) ==
    [model_name |-> "AI_MODEL_NAME", user_id |-> user_id,
     feature_name |-> feature_name,
     prompt_tokens |-> usage.prompt_tokens,
     completion_tokens |-> usage.completion_tokens,
     total_tokens |-> usage.total_tokens]

\* nothing was logged
NotLogged(rows) == [ret |-> Return(NoStr, None), rows |-> rows]

\* log_token_usage called with the given keyword arguments: Python binds the
\* keywords to the parameters first (TypeError for a keyword that is no
\* parameter, or a parameter left without a value), then the row is inserted
LogTokenUsage(keywords, row, rows, mode) ==
    IF ~(keywords \subseteq LOG_TOKEN_USAGE_PARAMS)
           \/ ~(LOG_TOKEN_USAGE_REQUIRED \subseteq keywords)
    THEN [ret |-> Raise("TypeError"), rows |-> rows]
    ELSE IF mode = "error"
    THEN NotLogged(rows)
    ELSE [ret |-> Return("request_id", None), rows |-> Append(rows, row)]

-----------------------------------------------------------------------------
(* app.py and newscast_generator.py: the callers of the AI helpers *)

\* "No summary available for this article."
PLACEHOLDER ==
    <<"N", "o", " ", "s", "u", "m", "m", "a", "r", "y", " ", "a", "v", "a", "i", "l", "a", "b", "l", "e", " ", "f", "o", "r", " ", "t", "h", "i", "s", " ", "a", "r", "t", "i", "c", "l", "e", ".">>

\* the keywords app.py passes to log_token_usage, and newscast_generator.py
APP_KEYWORDS == LOG_TOKEN_USAGE_PARAMS \cup { "db" }

NEWSCAST_KEYWORDS == LOG_TOKEN_USAGE_PARAMS

\* a feed entry: its link and its summary (NoText: no attribute 'summary'),
\* free of markup, so that BeautifulSoup's get_text() returns it as it is
Entry(link, summary) == [kind |-> "entry", link |-> link, summary |-> summary]

\* an element of the list get_personalized_news returns: (entry, logo_url)
Pair(entry) == [kind |-> "tuple", entry |-> entry, logo_url |-> NoStr]

\* the entries the feeds hold: two of them carry the same link, one has no
\* summary
FeedItems ==
    { Entry("l1", Article("A", 2)), Entry("l1", Article("B", 3)),
      Entry("l2", NoText), Entry("l2", Article("B", 3)) }

EntryLists == SeqsUpTo({ Pair(e) : e \in FeedItems }, MaxEntries)

\* session user ids; 0 when nobody is logged in (user_id is None)
UserIds == { 0, 7 }

\* str(user_id)
StrOfInt(n) == IF n = 7 THEN "7" ELSE "0"

\* str(user_id) if user_id else "anonymous"
UserIdOrAnonymous(user_id) == IF user_id # 0 THEN StrOfInt(user_id) ELSE "anonymous"

\* hasattr(obj, 'summary')
HasAttrSummary(obj) == obj.kind = "entry" /\ obj.summary # NoText

\* " ".join(summaries)
RECURSIVE JoinSpace(_)
JoinSpace(summaries) ==
    IF summaries = <<>> THEN <<>>
    ELSE IF Len(summaries) = 1 THEN Head(summaries)
    ELSE Head(summaries) \o <<" ">> \o JoinSpace(Tail(summaries))

\* the model responses the callers are checked with: the two markers, the
\* second with a summary
AppReplyPieces ==
    { <<"S", "U", "M", "M", "A", "R", "Y", " ", "1", ":">>,
      <<"\n", "s", "u", "m", "m", "a", "r", "y", "2", ":", " ", "b">> }

AppReplyTexts == { Concat(ps) : ps \in SeqsUpTo(AppReplyPieces, MaxReplyPieces) }

\* the calls of ai_utils the callers are checked with
AppCases ==
    { c \in CallCases : c[1] = "ok" /\ c[2].text_ok /\ c[2].usage_ok
                            => c[2].text \in AppReplyTexts }

\* except RateLimitException:
Caught_Never(ret, exc) == FALSE

Caught(ret, exc) == ret.kind = "raise" /\ ret.exc = exc

\* an exception leaves the route: Flask answers 500
Unhandled(route, user_id, pairs, call, exc) ==
    [NoHttp EXCEPT !.route = route, !.status = 500, !.body = "unhandled",
                   !.error = exc, !.user_id = user_id, !.entries = pairs,
                   !.call = call]

\* for entry, logo_url in entries_with_logos
EntriesOfPairs(pairs) == [i \in 1..Len(pairs) |-> pairs[i].entry]

\* entries_with_summary and texts_to_summarize (lines 118-137)
EntriesWithSummary(pairs) == SelectSeq(EntriesOfPairs(pairs), HasAttrSummary)

TextsToSummarize(pairs) ==
    [i \in 1..Len(EntriesWithSummary(pairs)) |->
        Prefix(EntriesWithSummary(pairs)[i].summary, SUMMARY_INPUT_LEN)]

\* summary_map.get(link, default) after the loop of lines 168-169: a later
\* entry with the same link overwrites the value of an earlier one
SummaryMapGet(entries_with_summary, batch_summaries, link, default) ==
    LET filled == batch_summaries # <<>>
                      /\ Len(batch_summaries) = Len(entries_with_summary)
        at == { i \in 1..Len(entries_with_summary) :
                    entries_with_summary[i].link = link }
    IN  IF filled /\ at # {}
        THEN batch_summaries[CHOOSE i \in at : \A j \in at : j <= i]
        ELSE default

\* the summaries of line 172, one per fetched entry
ShownSummaries(pairs, batch_summaries) ==
    [i \in 1..Len(pairs) |->
        SummaryMapGet(EntriesWithSummary(pairs), batch_summaries,
                      pairs[i].entry.link, PLACEHOLDER)]

\* the call of summarize_texts_batch that was not made
NotCalled(errs, utc) ==
    [NoCall EXCEPT !.at = utc, !.errors_before = errs, !.errors_after = errs]

\* display_news from the entries on (lines 117-191): the answer, the session
\* and the two tables after it
DisplayNewsCall(user_id, pairs, sess, c, errs, utc, rows, tokdb) ==
    LET texts == TextsToSummarize(pairs)
        call == IF texts # <<>>
                THEN SummarizeTextsBatchCall(texts, c[1], c[2], errs, utc, c[3])
                ELSE NotCalled(errs, utc)
        same == [session |-> sess, rows |-> rows, errors |-> call.errors_after]
    IN  IF Caught(call.ret, "RateLimitException")
        THEN same @@
             [http |-> [NoHttp EXCEPT
                 !.route = "display_news", !.status = 503,
                 !.body = "rate_limit.html", !.user_id = user_id,
                 !.entries = pairs, !.call = call,
                 !.last_error_time =
                     IF MostRecentError(call.errors_after) = None
                     THEN "an unknown time" ELSE "timestamp UTC"]]
        ELSE IF call.ret.kind = "raise"
        THEN same @@ [http |-> Unhandled("display_news", user_id, pairs, call,
                                          call.ret.exc)]
        ELSE LET log == IF call.ret.usage # None
                        THEN LogTokenUsage(APP_KEYWORDS,
                                 TokenRow(UserIdOrAnonymous(user_id),
                                          "batch-summarization", call.ret.usage),
                                 rows, tokdb)
                        ELSE NotLogged(rows)
                 summaries == ShownSummaries(pairs, call.ret.value)
             IN  IF log.ret.kind = "raise"
                 THEN same @@ [http |-> Unhandled("display_news", user_id, pairs,
                                                   call, log.ret.exc)]
                 ELSE [session |-> IF summaries # <<>> THEN JoinSpace(summaries)
                                   ELSE NoText,
                       rows |-> log.rows,
                       errors |-> call.errors_after,
                       http |-> [NoHttp EXCEPT
                           !.route = "display_news", !.status = 200,
                           !.body = "index.html", !.user_id = user_id,
                           !.entries = pairs, !.call = call,
                           !.summaries = summaries]]

\* how gTTS ends when the audio file has to be made
TtsModes == { "ok", "error" }

\* a JSON answer of generate_audio
AudioAnswer(status, body, user_id, call) ==
    [NoHttp EXCEPT !.route = "generate_audio", !.status = status,
                   !.body = body, !.user_id = user_id, !.call = call]

\* if not combined_summaries (line 200)
CombinedSummariesMissing_Never(sess) == FALSE

CombinedSummariesMissing(sess) == ~TruthyText(sess)

\* generate_audio (lines 196-253)
GenerateAudioCall(user_id, sess, c, errs, utc, rows, tokdb, tts) ==
    IF CombinedSummariesMissing(sess)
    THEN [session |-> sess, rows |-> rows, errors |-> errs,
          http |-> AudioAnswer(404, "json_error", user_id, NotCalled(errs, utc))]
    ELSE
    LET call == RephraseAsAnchorCall(sess, c[1], c[2], errs, utc, c[3])
        same == [session |-> sess, rows |-> rows, errors |-> call.errors_after]
    IN  IF Caught(call.ret, "RateLimitException")
        THEN same @@ [http |-> AudioAnswer(503, "json_error", user_id, call)]
        ELSE IF call.ret.kind = "raise"
        THEN same @@ [http |-> Unhandled("generate_audio", user_id, <<>>, call,
                                          call.ret.exc)]
        ELSE IF call.ret.value = <<>> \/ Strip(call.ret.value) = <<>>
        THEN same @@ [http |-> AudioAnswer(500, "json_error", user_id, call)]
        ELSE LET log == IF call.ret.usage # None
                        THEN LogTokenUsage(APP_KEYWORDS,
                                 TokenRow(UserIdOrAnonymous(user_id),
                                          "anchor-script-rephrasing",
                                          call.ret.usage),
                                 rows, tokdb)
                        ELSE NotLogged(rows)
             IN  IF log.ret.kind = "raise"
                 THEN same @@ [http |-> Unhandled("generate_audio", user_id, <<>>,
                                                   call, log.ret.exc)]
                 ELSE IF tts = "error"
                 THEN [same EXCEPT !.rows = log.rows] @@
                      [http |-> AudioAnswer(500, "json_error", user_id, call)]
                 ELSE [same EXCEPT !.rows = log.rows] @@
                      [http |-> [AudioAnswer(200, "audio_file", user_id, call)
                                    EXCEPT !.script = call.ret.value]]

\* what generate_newscast_content hands to process_user
Newscast(user_id, pairs, call, body, script, exc) ==
    [NoHttp EXCEPT !.route = "generate_newscast_content", !.body = body,
                   !.error = exc, !.user_id = user_id, !.entries = pairs,
                   !.call = call, !.script = script]

\* generate_newscast_content from the texts on (lines 121-157); c1 and c2
\* are what the two calls of the AI helpers meet
NewscastFromTexts(user_id, pairs, texts, sess, c1, c2, errs, utc, rows, tokdb) ==
    LET call1 == SummarizeTextsBatchCall(texts, c1[1], c1[2], errs, utc, c1[3])
        log1 == IF call1.ret.kind = "return" /\ call1.ret.usage # None
                THEN LogTokenUsage(NEWSCAST_KEYWORDS,
                         TokenRow(StrOfInt(user_id), "newscast-summarization",
                                  call1.ret.usage),
                         rows, tokdb)
                ELSE NotLogged(rows)
        after1 == [session |-> sess, rows |-> log1.rows,
                   errors |-> call1.errors_after]
    IN  IF Caught(call1.ret, "RateLimitException")
        THEN after1 @@ [http |-> Newscast(user_id, pairs, call1, "skipped",
                                           NoText, NoStr)]
        ELSE IF call1.ret.kind = "raise"
        THEN after1 @@ [http |-> Newscast(user_id, pairs, call1, "unhandled",
                                           NoText, call1.ret.exc)]
        ELSE IF log1.ret.kind = "raise"
        THEN after1 @@ [http |-> Newscast(user_id, pairs, call1, "unhandled",
                                           NoText, log1.ret.exc)]
        ELSE IF call1.ret.value = <<>>
        THEN after1 @@ [http |-> Newscast(user_id, pairs, call1, "skipped",
                                           NoText, NoStr)]
        ELSE
        LET call2 == RephraseAsAnchorCall(JoinSpace(call1.ret.value), c2[1], c2[2],
                                          call1.errors_after, utc, c2[3])
            log2 == IF call2.ret.kind = "return" /\ call2.ret.usage # None
                    THEN LogTokenUsage(NEWSCAST_KEYWORDS,
                             TokenRow(StrOfInt(user_id), "newscast-rephrasing",
                                      call2.ret.usage),
                             log1.rows, tokdb)
                    ELSE NotLogged(log1.rows)
            after2 == [session |-> sess, rows |-> log2.rows,
                       errors |-> call2.errors_after]
        IN  IF Caught(call2.ret, "RateLimitException")
            THEN after2 @@ [http |-> Newscast(user_id, pairs, call2, "skipped",
                                               NoText, NoStr)]
            ELSE IF call2.ret.kind = "raise"
            THEN after2 @@ [http |-> Newscast(user_id, pairs, call2, "unhandled",
                                               NoText, call2.ret.exc)]
            ELSE IF log2.ret.kind = "raise"
            THEN after2 @@ [http |-> Newscast(user_id, pairs, call2, "unhandled",
                                               NoText, log2.ret.exc)]
            ELSE after2 @@ [http |-> Newscast(user_id, pairs, call2, "script",
                                               call2.ret.value, NoStr)]

\* texts_to_summarize of generate_newscast_content (lines 111-115): the loop
\* asks hasattr(entry, 'summary') of the elements of the list themselves
NewscastTexts(pairs) ==
    LET with_summary == SelectSeq(pairs, HasAttrSummary)
    IN  [i \in 1..Len(with_summary) |->
            Prefix(with_summary[i].summary, SUMMARY_INPUT_LEN)]

\* generate_newscast_content(user_id) from the fetched list on (lines 106-157)
GenerateNewscastContentCall(user_id, pairs, sess, c1, c2, errs, utc, rows, tokdb) ==
    IF pairs = <<>> \/ NewscastTexts(pairs) = <<>>
    THEN [session |-> sess, rows |-> rows, errors |-> errs,
          http |-> Newscast(user_id, pairs, NotCalled(errs, utc), "skipped",
                            NoText, NoStr)]
    ELSE NewscastFromTexts(user_id, pairs, NewscastTexts(pairs), sess, c1, c2,
                           errs, utc, rows, tokdb)

\* what the AI helpers can meet in a run of generate_newscast_content
NewscastCases(pairs) ==
    IF pairs = <<>> \/ NewscastTexts(pairs) = <<>>
    THEN { <<"error", None, "ok">> }
    ELSE AppCases

\* the request is answered with r and the stores are left as r says
Answered(r) ==
    /\ http' = r.http
    /\ session' = r.session
    /\ api_token_usage' = r.rows
    /\ api_errors' = r.errors
    /\ UNCHANGED <<now, tz_offset, ai, pc, last_error, news,
                   users, clock, outbox, reset, used_tokens>>

\* GET /
DisplayNews ==
    /\ http = NoHttp /\ Len(api_token_usage) < MaxTokenRows
    /\ \E user_id \in UserIds, pairs \in EntryLists, c \in AppCases,
          tokdb \in TokenDbModes :
           Answered(DisplayNewsCall(user_id, pairs, session, c, api_errors, now,
                                    api_token_usage, tokdb))

\* GET /generate_audio
GenerateAudio ==
    /\ http = NoHttp /\ Len(api_token_usage) < MaxTokenRows
    /\ \E user_id \in UserIds, c \in AppCases, tokdb \in TokenDbModes,
          tts \in TtsModes :
           Answered(GenerateAudioCall(user_id, session, c, api_errors, now,
                                      api_token_usage, tokdb, tts))

\* process_user calls generate_newscast_content for a user of the table
GenerateNewscastContent ==
    /\ http = NoHttp /\ Len(api_token_usage) < MaxTokenRows
    /\ \E user_id \in UserIds \ { 0 }, pairs \in EntryLists :
           \* the AI helpers are met only when there are texts to summarize
           \E c1 \in NewscastCases(pairs), c2 \in NewscastCases(pairs),
              tokdb \in TokenDbModes :
               Answered(GenerateNewscastContentCall(user_id, pairs, session,
                                                    c1, c2, api_errors, now,
                                                    api_token_usage, tokdb))

\* the answer has been sent
RequestDone ==
    /\ http # NoHttp
    /\ http' = NoHttp
    /\ UNCHANGED <<api_errors, now, tz_offset, ai, pc, last_error, news,
                   session, api_token_usage,
                   users, clock, outbox, reset, used_tokens>>

InitApp ==
    /\ api_errors = <<>>
    /\ now = 0
    /\ tz_offset = 0
    /\ ai = NoCall
    /\ pc = [p \in Procs |-> "idle"]
    /\ last_error = [p \in Procs |-> None]
    /\ news = NoNews
    /\ AppIdle
    /\ ResetIdle

NextApp == DisplayNews \/ GenerateAudio \/ GenerateNewscastContent \/ RequestDone

SpecApp == InitApp /\ [][NextApp]_vars

-----------------------------------------------------------------------------
(* app.py: forgot_password and reset_password *)

\* max_age=3600 and timedelta(hours=1), in seconds
RESET_MAX_AGE == 3600

\* the emails and passwords the forms are filled with
FormEmails == RegisteredEmails \cup { "z@x" }

FormPasswords == { "p1", "p2" }

Methods == { "GET", "POST" }

\* how send_email ends: it returns True, or logs the error and returns False
SmtpModes == { "ok", "error" }

\* URLSafeTimedSerializer(app.secret_key).dumps(email, salt=...): the payload,
\* the time of signing in whole seconds, and the signature over both; two
\* calls for the same email within one second return the same token
Dumps(email, clk) == [email |-> email, iat |-> clk, signed |-> TRUE]

\* .loads(token, salt=..., max_age=3600): the payload, or NoStr when the
\* signature is bad or the token is older than max_age (an exception)
Loads(token, clk) ==
    IF ~token.signed \/ clk - token.iat > RESET_MAX_AGE
    THEN NoStr
    ELSE token.email

\* a token nobody signed
ForgedToken == [email |-> "a@x", iat |-> 0, signed |-> FALSE]

\* the answer of a password-reset route
ResetAnswer(route, method, email, token, status, flash, page, changed) ==
    [route |-> route, method |-> method, email |-> email, token |-> token,
     status |-> status, flash |-> flash, page |-> page, changed |-> changed]

\* the flash message and the redirect that end a forgot_password POST
\* (lines 365-368)
ForgotPasswordAnswer_Revealing(email, found) ==
    IF found
    THEN ResetAnswer("forgot_password", "POST", email, NoToken, 302,
                     "If that email address is in our database, a password reset link has been sent.",
                     "login", FALSE)
    ELSE ResetAnswer("forgot_password", "POST", email, NoToken, 302,
                     "No account with that email address.", "login", FALSE)

ForgotPasswordAnswer(email, found) ==
    ResetAnswer("forgot_password", "POST", email, NoToken, 302,
                "If that email address is in our database, a password reset link has been sent.",
                "login", FALSE)

\* forgot_password (lines 339-370): the table, the mails delivered and
\* the answer
ForgotPasswordCall(method, email, usrs, clk, smtp) ==
    IF method # "POST"
    THEN [users |-> usrs, mails |-> {},
          answer |-> ResetAnswer("forgot_password", method, NoStr, NoToken,
                                 200, "none", "forgot_password.html", FALSE)]
    ELSE LET found == email \in DOMAIN usrs
             token == Dumps(email, clk)
         IN  [users |-> IF found
                        THEN [usrs EXCEPT
                                 ![email].reset_token = token,
                                 ![email].reset_token_expiry = clk + RESET_MAX_AGE]
                        ELSE usrs,
              mails |-> IF found /\ smtp = "ok"
                        THEN { [to |-> email, token |-> token] }
                        ELSE {},
              answer |-> ForgotPasswordAnswer(email, found)]

\* 'The password reset link is invalid or has expired.' (lines 380-381, 391-392)
ResetRejected(method, token) ==
    ResetAnswer("reset_password", method, NoStr, token, 302,
                "The password reset link is invalid or has expired.",
                "login", FALSE)

\* the query of lines 384-388: the user with this email, this token, and an
\* expiry later than now
ResetUserFound(usrs, email, token, clk) ==
    /\ email \in DOMAIN usrs
    /\ usrs[email].reset_token # NoToken /\ usrs[email].reset_token = token
    /\ usrs[email].reset_token_expiry # NoExpiry
    /\ usrs[email].reset_token_expiry > clk

\* lines 405-408: the new password, and the token cleared
ResetRow(row, password) ==
    [password |-> GeneratePasswordHash(password),
     reset_token |-> NoToken, reset_token_expiry |-> NoExpiry]

\* reset_password(token) (lines 374-416)
ResetPasswordCall(method, token, password, confirm_password, usrs, clk) ==
    LET email == Loads(token, clk)
    IN  IF email = NoStr
        THEN [users |-> usrs, answer |-> ResetRejected(method, token)]
        ELSE IF ~ResetUserFound(usrs, email, token, clk)
        THEN [users |-> usrs, answer |-> ResetRejected(method, token)]
        ELSE IF method = "POST"
        THEN IF password # confirm_password
             THEN [users |-> usrs,
                   answer |-> ResetAnswer("reset_password", method, email, token,
                                          200, "Passwords do not match.",
                                          "reset_password.html", FALSE)]
             ELSE [users |-> [usrs EXCEPT ![email] = ResetRow(@, password)],
                   answer |-> ResetAnswer("reset_password", method, email, token,
                                  302,
                                  "Your password has been successfully reset. Please log in.",
                                  "login", TRUE)]
        ELSE [users |-> usrs,
              answer |-> ResetAnswer("reset_password", method, email, token, 200,
                                     "none", "reset_password.html", FALSE)]

\* the tokens a request can carry: those that were mailed, and a forged one
IssuedTokens == { m.token : m \in outbox }

\* GET or POST /forgot_password
ForgotPassword ==
    /\ reset = NoReset /\ Cardinality(outbox) < MaxMails
    /\ \E method \in Methods, email \in FormEmails, smtp \in SmtpModes :
           LET r == ForgotPasswordCall(method, email, users, clock, smtp)
           IN  /\ users' = r.users
               /\ outbox' = outbox \cup r.mails
               /\ reset' = r.answer
    /\ UNCHANGED <<api_errors, now, tz_offset, ai, pc, last_error, news,
                   session, api_token_usage, http, clock, used_tokens>>

\* GET or POST /reset_password/<token>
ResetPassword ==
    /\ reset = NoReset
    /\ \E method \in Methods, token \in IssuedTokens \cup { ForgedToken },
          password \in FormPasswords, confirm_password \in FormPasswords :
           LET r == ResetPasswordCall(method, token, password, confirm_password,
                                      users, clock)
           IN  /\ users' = r.users
               /\ reset' = r.answer
               /\ used_tokens' = IF r.answer.changed
                                 THEN used_tokens \cup { token }
                                 ELSE used_tokens
    /\ UNCHANGED <<api_errors, now, tz_offset, ai, pc, last_error, news,
                   session, api_token_usage, http, clock, outbox>>

\* the answer has been sent
ResetDone ==
    /\ reset # NoReset
    /\ reset' = NoReset
    /\ UNCHANGED <<api_errors, now, tz_offset, ai, pc, last_error, news,
                   session, api_token_usage, http, users, clock, outbox,
                   used_tokens>>

\* a second passes
TickSecond ==
    /\ reset = NoReset
    /\ clock % RESET_MAX_AGE < MaxSeconds
    /\ clock' = clock + 1
    /\ UNCHANGED <<api_errors, now, tz_offset, ai, pc, last_error, news,
                   session, api_token_usage, http, users, outbox, reset,
                   used_tokens>>

\* an hour less a second passes
TickHour ==
    /\ reset = NoReset
    /\ clock < RESET_MAX_AGE
    /\ clock' = clock + (RESET_MAX_AGE - 1)
    /\ UNCHANGED <<api_errors, now, tz_offset, ai, pc, last_error, news,
                   session, api_token_usage, http, users, outbox, reset,
                   used_tokens>>

InitReset ==
    /\ api_errors = <<>>
    /\ now = 0
    /\ tz_offset = 0
    /\ ai = NoCall
    /\ pc = [p \in Procs |-> "idle"]
    /\ last_error = [p \in Procs |-> None]
    /\ news = NoNews
    /\ AppIdle
    /\ ResetIdle

NextReset == ForgotPassword \/ ResetPassword \/ ResetDone \/ TickSecond \/ TickHour

SpecReset == InitReset /\ [][NextReset]_vars

-----------------------------------------------------------------------------
(* Properties of summarize_texts_batch and rephrase_as_anchor (SpecAI) *)

IsBatch == ai.op = "summarize_texts_batch"

IsAnchor == ai.op = "rephrase_as_anchor"

\* the provider returned a response whose text and counters can be read
Readable == ai.outcome = "ok" /\ ai.response.text_ok /\ ai.response.usage_ok

\* the provider returned a response whose text or counters cannot be read
Malformed == ai.outcome = "ok" /\ ~(ai.response.text_ok /\ ai.response.usage_ok)

\* the number of 'SUMMARY <n>:' markers in a text: the places a marker starts
\* (two markers cannot overlap)
MarkerCount(s) == Cardinality({ i \in 1..Len(s) : MarkerEnd(s, i) > 0 })

\* MarkerCount of every response text of the model, computed once
MarkerCountOf == [t \in ResponseTexts |-> MarkerCount(t)]

\* s is the truncation fallback of text, stated without the code's expression
IsTruncationOf(s, text) ==
    IF Len(text) <= TRUNCATE_LEN THEN s = text
    ELSE /\ Len(s) = TRUNCATE_LEN + 3
         /\ \A i \in 1..TRUNCATE_LEN : s[i] = text[i]
         /\ \A i \in TRUNCATE_LEN + 1 .. TRUNCATE_LEN + 3 : s[i] = "."

\* the call returned the truncation fallback of every article and no usage
ReturnedFallback ==
    /\ ai.ret.kind = "return"
    /\ ai.ret.usage = None
    /\ Len(ai.ret.value) = Len(ai.texts)
    /\ \A i \in 1..Len(ai.texts) : IsTruncationOf(ai.ret.value[i], ai.texts[i])

\* C1: for every list of N >= 0 articles and every outcome of the model call
\* other than quota exceeded, summarize_texts_batch returns exactly N summaries.
C1_OutputLengthEqualsInputLength ==
    (IsBatch /\ ai.outcome # "quota") =>
        (ai.ret.kind = "return" /\ Len(ai.ret.value) = Len(ai.texts))

\* two articles, a readable response with two markers, so the parsed path
C1_Witness ==
    /\ IsBatch /\ Len(ai.texts) = 2 /\ Readable
    /\ MarkerCountOf[ai.response.text] = 2
    /\ ai.ret.kind = "return" /\ ai.ret.usage # None
    /\ ai.ret.value[1] # <<>> /\ ai.ret.value[2] # <<>>

\* C2: when the call succeeds but the response holds a number of markers
\* different from N (zero included), the result is the truncation fallback of
\* each article and no usage data.
C2_MarkerMismatchGivesFallback ==
    (IsBatch /\ Readable /\ MarkerCountOf[ai.response.text] # Len(ai.texts)) =>
        ReturnedFallback

\* one long article, a response with two markers
C2_Witness ==
    /\ IsBatch /\ Readable
    /\ Len(ai.texts) = 1 /\ Len(ai.texts[1]) > TRUNCATE_LEN
    /\ MarkerCountOf[ai.response.text] = 2
    /\ ai.ret.kind = "return"

\* C3: on quota exceeded during summarize_texts_batch the logging policy runs
\* exactly once and the call ends with RateLimitException; nothing is returned.
C3_QuotaRunsPolicyOnceAndRaises ==
    (IsBatch /\ ai.outcome = "quota") =>
        (ai.log_runs = 1 /\ ai.ret = Raise("RateLimitException"))

C3_Witness ==
    /\ IsBatch /\ ai.outcome = "quota" /\ ai.db = "ok"
    /\ ai.errors_after # ai.errors_before
    /\ ai.ret.kind = "raise"

\* C4: when the model call fails with a failure other than quota exceeded, the
\* result is the per-article truncation fallback without usage data and the
\* stored rate-limit events are unchanged.
C4_OtherFailureGivesFallbackAndNoLog ==
    (IsBatch /\ ai.outcome = "error") =>
        (ReturnedFallback /\ ai.errors_after = ai.errors_before /\ ai.log_runs = 0)

\* the failing call with a long and a short article, no event stored before
C4_Witness ==
    /\ IsBatch /\ ai.outcome = "error" /\ ai.errors_before = <<>>
    /\ Len(ai.texts) = 2
    /\ Len(ai.texts[1]) > TRUNCATE_LEN /\ Len(ai.texts[2]) < TRUNCATE_LEN
    /\ Len(ai.ret.value[1]) = TRUNCATE_LEN + 3

\* C7: summarize_texts_batch([]) returns ([], None) without invoking the
\* provider: no quota signal, no rate-limit event.
C7_EmptyInputMakesNoCall ==
    (IsBatch /\ ai.texts = <<>>) =>
        /\ ai.ret = Return(<<>>, None)
        /\ ai.api_calls = 0
        /\ ai.log_runs = 0
        /\ ai.errors_after = ai.errors_before

C7_Witness == IsBatch /\ ai.texts = <<>> /\ ai.ret.kind = "return"

C9_FaultsBecomeFallback ==
    /\ (ai.ret.kind = "raise") => (ai.ret.exc = "RateLimitException")
    /\ (IsBatch /\ (ai.outcome = "error" \/ Malformed)) => ReturnedFallback
    /\ (IsAnchor /\ (ai.outcome = "error" \/ Malformed)) =>
           ai.ret = Return(ANCHOR_FALLBACK, None)

-----------------------------------------------------------------------------
(* Properties of the rate-limit log (SpecRate, SpecRace) *)

LatestOf(errs) == CHOOSE t \in { errs[i] : i \in DOMAIN errs } : \A i \in DOMAIN errs : errs[i] <= t

\* C5: in a sequential history of quota events, an event within 23 hours of
\* the stored event stores nothing, and an event more than 23 hours after the
\* most recent stored event stores one new event.
C5_CooldownSuppressesThenExpires ==
    (ai.outcome = "quota" /\ ai.db = "ok" /\ ai.errors_before # <<>>) =>
        LET elapsed == ai.at - LatestOf(ai.errors_before)
        IN  /\ (elapsed <= COOLDOWN_HOURS) => (ai.errors_after = ai.errors_before)
            /\ (elapsed > COOLDOWN_HOURS) =>
                   (ai.errors_after = Append(ai.errors_before, ai.at))

\* the sets of rows whose timestamps lie within 23 hours of each other
WithinOneWindow(rows) ==
    \A i \in rows, j \in rows :
        api_errors[i] - api_errors[j] <= COOLDOWN_HOURS

\* C6 as stated: however many requests overlap, at most two stored events lie
\* within 23 hours of each other.
C6_AtMostOneDuplicate ==
    \A rows \in SUBSET (DOMAIN api_errors) :
        WithinOneWindow(rows) => Cardinality(rows) <= 2

\* C6: every request that runs the policy stores at most one event: a step
\* adds at most one row, and only the commit of a request that decided to log.
C6_OneRowPerRequest ==
    [][ /\ Len(api_errors') <= Len(api_errors) + 1
        /\ (Len(api_errors') > Len(api_errors)) =>
               \E p \in Procs : pc[p] = "commit" /\ pc'[p] = "closed" ]_vars

\* every request has stored an event at the same hour
C6_Witness ==
    /\ \A p \in Procs : pc[p] = "closed" /\ last_error[p] = None
    /\ Len(api_errors) = Cardinality(Procs)
    /\ Cardinality(Procs) > 2
    /\ \A i \in DOMAIN api_errors : api_errors[i] = now

-----------------------------------------------------------------------------
(* Properties of get_personalized_news (SpecNews) *)

\* the search feed for a query: the search URL with the query percent-encoded
IsSearchFeedFor(url, query) ==
    /\ url.path = "rss/search"
    /\ url.q = Quote(query)

\* C10: whenever a search query is present, exactly one feed is fetched, the
\* search feed for that query with limit 10, and its entries are returned,
\* whatever the category override, the user's preferences and the number of
\* entries found; no category, topic or default feed is fetched.
C10_SearchFetchesOnlySearchFeed ==
    (news.called /\ TruthyText(news.search_query) /\ news.user # LookupFails) =>
        /\ Len(news.fetched) = 1
        /\ IsSearchFeedFor(news.fetched[1].url, news.search_query)
        /\ news.fetched[1].limit = 10
        /\ news.ret.kind = "return"
        /\ \A i \in 1..Len(news.ret.value) :
               news.ret.value[i].url = news.fetched[1].url
        /\ Len(news.ret.value) =
               IF news.fetched[1].found = FeedFails THEN 0
               ELSE IF news.fetched[1].found < 10 THEN news.fetched[1].found
               ELSE 10

\* a search by a user with a category and topics, a recognised category
\* override given too, and an empty search feed
C10_Witness ==
    /\ news.called /\ TruthyText(news.search_query)
    /\ news.user \in Users
    /\ news.user.preferred_category = "World" /\ news.user.topics # <<>>
    /\ news.category = "World"
    /\ news.fetched[1].found = 0
    /\ news.ret = Return(<<>>, None)

\* the call looked the user up without a fault and was given no search query
NoSearchCall ==
    /\ news.called /\ news.user # LookupFails
    /\ ~TruthyText(news.search_query)

\* the call went on to the preference blend for a user whose preferences
\* could be read
BlendCall ==
    /\ NoSearchCall
    /\ news.category \notin DOMAIN NEWS_FEEDS
    /\ news.user \in Users /\ news.prefs = "ok"

\* the feed of a category key of NEWS_FEEDS
IsCategoryFeedFor(url, key) ==
    /\ url.path = NEWS_FEEDS[key].path
    /\ url.q = NEWS_FEEDS[key].q

\* the number of entries a fetch contributes
Kept(f) ==
    IF f.found = FeedFails THEN 0
    ELSE IF f.found < f.limit THEN f.found
    ELSE f.limit

\* the entries a fetch contributes: the first Kept(f) of its feed
FirstEntries(f) == [i \in 1..Kept(f) |-> [url |-> f.url, idx |-> i]]

\* fetch f is the default step: the 'Top Stories' feed with limit 10
IsDefaultFetch(f) == IsCategoryFeedFor(f.url, "Top Stories") /\ f.limit = 10

\* what each fetch of the call found, in order
FoundOf(fetched) == [i \in 1..Len(fetched) |-> fetched[i].found]

\* C11: with no search query, a category override that is a key of
\* NEWS_FEEDS makes the call fetch that category's feed only, with limit 10,
\* and return its entries (none, if the feed is empty or fails) however the
\* user's preferences read; any other override changes nothing: the call
\* fetches and returns what it does without an override.
C11_CategoryOverrideOnlyForKnownKey ==
    NoSearchCall =>
        IF news.category \in DOMAIN NEWS_FEEDS
        THEN /\ Len(news.fetched) = 1
             /\ IsCategoryFeedFor(news.fetched[1].url, news.category)
             /\ news.fetched[1].limit = 10
             /\ news.ret = Return(FirstEntries(news.fetched[1]), None)
        ELSE LET r == PersonalizedNews(news.user, news.search_query,
                                       news.country_code, NoStr, news.prefs,
                                       FoundOf(news.fetched) @@ [i \in 1..3 |-> FeedFails])
             IN  /\ news.fetched = r.fetched
                 /\ news.ret = r.ret

\* an override by a category served from a search feed, for a user whose
\* preferences cannot be read, the feed being empty
C11_Witness ==
    /\ NoSearchCall /\ news.search_query = <<>>
    /\ news.category = "AI"
    /\ news.user \in Users /\ news.prefs = "error"
    /\ news.fetched[1].found = 0
    /\ news.ret = Return(<<>>, None)

\* an unknown override, for a user with a category and topics
C11_WitnessIgnored ==
    /\ NoSearchCall /\ news.category = "Bogus"
    /\ news.user \in Users /\ news.prefs = "ok"
    /\ news.user.preferred_category = "World" /\ news.user.topics # <<>>
    /\ Len(news.ret.value) = 2 * PAIR_LIMIT

\* the user has a preferred category that is a key of NEWS_FEEDS
HasKnownCategory == news.user.preferred_category \in DOMAIN NEWS_FEEDS

HasTopics == news.user.topics # <<>>

\* the first two fetches are the category feed and the combined topic
\* search, each with limit 5
PairFetched ==
    /\ Len(news.fetched) >= 2
    /\ IsCategoryFeedFor(news.fetched[1].url, news.user.preferred_category)
    /\ news.fetched[1].limit = 5
    /\ IsSearchFeedFor(news.fetched[2].url, JoinOr(news.user.topics))
    /\ news.fetched[2].limit = 5

\* C12 as stated: for a user with a known preferred category and topics the
\* call requests 5 entries of the category feed and 5 of one combined topic
\* search, and returns the category entries followed by the topic entries.
C12_BlendIsCategoryThenTopics ==
    (BlendCall /\ HasKnownCategory /\ HasTopics) =>
        /\ PairFetched
        /\ news.ret = Return(FirstEntries(news.fetched[1])
                                 \o FirstEntries(news.fetched[2]), None)

\* C12, amended: the same two requests are made; the call returns the
\* category entries followed by the topic entries when there is at least one
\* of them, and nothing else is fetched; when both feeds contribute nothing
\* the default feed is fetched as well and its entries are returned.
C12_BlendThenDefaultIfEmpty ==
    (BlendCall /\ HasKnownCategory /\ HasTopics) =>
        /\ PairFetched
        /\ LET pair == FirstEntries(news.fetched[1]) \o FirstEntries(news.fetched[2])
           IN  IF pair # <<>>
               THEN /\ Len(news.fetched) = 2
                    /\ Len(pair) <= 2 * PAIR_LIMIT
                    /\ news.ret = Return(pair, None)
               ELSE /\ Len(news.fetched) = 3
                    /\ IsDefaultFetch(news.fetched[3])
                    /\ news.ret = Return(FirstEntries(news.fetched[3]), None)

\* a category feed of 6 entries and a topic search of 4: 5 and 4 are returned
C12_Witness ==
    /\ BlendCall /\ HasKnownCategory /\ HasTopics
    /\ news.fetched[1].found = PAIR_LIMIT + 1
    /\ news.fetched[2].found = 4
    /\ Len(news.ret.value) = PAIR_LIMIT + 4
    /\ news.ret.value[PAIR_LIMIT].url = news.fetched[1].url
    /\ news.ret.value[PAIR_LIMIT + 1].url = news.fetched[2].url

\* after the one fetch of the blend, only the default step may follow, and
\* only when that fetch contributed nothing
OnlyDefaultMayFollow ==
    \/ Len(news.fetched) = 1
    \/ /\ Len(news.fetched) = 2
       /\ Kept(news.fetched[1]) = 0
       /\ IsDefaultFetch(news.fetched[2])

\* C13: a user with a known preferred category and no topics gets one
\* category fetch with limit 10 and no topic fetch; a user with topics and
\* no known preferred category (none, or one that is not a key of
\* NEWS_FEEDS) gets one topic search with limit 10 and no category fetch.
C13_SingleSourceGetsTen ==
    BlendCall =>
        /\ (HasKnownCategory /\ ~HasTopics) =>
               /\ Len(news.fetched) >= 1
               /\ IsCategoryFeedFor(news.fetched[1].url, news.user.preferred_category)
               /\ news.fetched[1].limit = 10
               /\ OnlyDefaultMayFollow
        /\ (~HasKnownCategory /\ HasTopics) =>
               /\ Len(news.fetched) >= 1
               /\ IsSearchFeedFor(news.fetched[1].url, JoinOr(news.user.topics))
               /\ news.fetched[1].limit = 10
               /\ OnlyDefaultMayFollow

\* topics and a preferred category that is not a key, the topic search
\* finding more than 10 entries
C13_Witness ==
    /\ BlendCall /\ HasTopics
    /\ news.user.preferred_category = "Bogus"
    /\ news.fetched[1].found = MaxFeedLen
    /\ Len(news.fetched) = 1
    /\ Len(news.ret.value) = 10

\* the call went down the preference path and returned
PreferencePathReturned ==
    /\ NoSearchCall
    /\ news.category \notin DOMAIN NEWS_FEEDS
    /\ news.ret.kind = "return"

\* the number of fetches the user's preferences ask for
PreferenceFetches ==
    IF news.user \in Users /\ news.prefs = "ok"
    THEN (IF HasKnownCategory THEN 1 ELSE 0) + (IF HasTopics THEN 1 ELSE 0)
    ELSE 0

\* the entries fetch i contributed (none when there is no fetch i)
EntriesAt(i) ==
    IF i <= Len(news.fetched) THEN FirstEntries(news.fetched[i]) ELSE <<>>

\* the entries the preference fetches contributed
PreferenceEntries ==
    IF PreferenceFetches = 0 THEN <<>>
    ELSE IF PreferenceFetches = 1 THEN EntriesAt(1)
    ELSE EntriesAt(1) \o EntriesAt(2)

\* the default step ran: a fetch was made after the preference fetches
DefaultStepRan == Len(news.fetched) > PreferenceFetches

\* an entry of the default feed is in the result
DefaultEntryReturned ==
    \E i \in 1..Len(news.ret.value) :
        IsCategoryFeedFor(news.ret.value[i].url, "Top Stories")

\* the default step runs exactly when the preference fetches contributed
\* nothing, and then the result is the default feed's first 10 entries
DefaultIffNothingContributed ==
    /\ DefaultStepRan <=> PreferenceEntries = <<>>
    /\ DefaultStepRan =>
           /\ Len(news.fetched) = PreferenceFetches + 1
           /\ IsDefaultFetch(news.fetched[Len(news.fetched)])
           /\ news.ret.value = FirstEntries(news.fetched[Len(news.fetched)])

\* C14 as stated: on the preference path the default feed is fetched (limit
\* 10) exactly when the preference fetches contributed no entry; then the
\* result is its entries only, and otherwise no entry of the default feed
\* is in the result.
C14_DefaultOnlyWhenNothingContributed ==
    PreferencePathReturned =>
        /\ DefaultIffNothingContributed
        /\ ~DefaultStepRan => ~DefaultEntryReturned

\* C14, amended: the default step runs exactly when the preference fetches
\* contributed no entry, and then the result is its entries only; when it
\* does not run, an entry of the default feed is in the result only for a
\* user whose preferred category is 'Top Stories' itself.
C14_DefaultEntriesOnlyFromDefaultOrCategory ==
    PreferencePathReturned =>
        /\ DefaultIffNothingContributed
        /\ (~DefaultStepRan /\ DefaultEntryReturned) =>
               news.user.preferred_category = "Top Stories"
        /\ (~DefaultStepRan /\ news.user.preferred_category # "Top Stories") =>
               ~DefaultEntryReturned

\* a user with a category and topics whose two feeds are empty or failing:
\* the default feed is fetched third and its entries are the result
C14_Witness ==
    /\ PreferencePathReturned /\ PreferenceFetches = 2
    /\ news.fetched[1].found = FeedFails /\ news.fetched[2].found = 0
    /\ DefaultStepRan /\ news.fetched[3].found = 4
    /\ Len(news.ret.value) = 4

\* the region every URL of the call is to carry
ExpectedRegion ==
    IF news.user \in Users /\ news.user.preferred_region \notin { NoStr, "" }
    THEN news.user.preferred_region
    ELSE IF news.country_code \notin { NoStr, "" } THEN news.country_code
    ELSE NoStr

\* C15: every URL one call fetches carries the same region: the user's
\* stored region if set, else the IP-derived country code if given (as
\* gl=<region>&hl=en, after '&' when the URL has a query string and after
\* '?' otherwise), else no region parameter at all.
C15_OneRegionForEveryFetch ==
    (news.called /\ news.user # LookupFails) =>
        \A i \in 1..Len(news.fetched) :
            LET url == news.fetched[i].url
            IN  IF ExpectedRegion = NoStr
                THEN url.sep = NoStr /\ url.gl = NoStr /\ url.hl = NoStr
                ELSE /\ url.gl = ExpectedRegion /\ url.hl = "en"
                     /\ url.sep = IF url.q = NoText THEN "?" ELSE "&"

\* a user with a stored region, a different country code from the IP, and
\* three fetches: category, topics, default
C15_Witness ==
    /\ news.called /\ news.user \in Users
    /\ news.user.preferred_region = "IN" /\ news.country_code = "US"
    /\ Len(news.fetched) = 3
    /\ \A i \in 1..3 : news.fetched[i].url.gl = "IN"
    /\ news.fetched[2].url.sep = "&" /\ news.fetched[3].url.sep = "?"

\* C16: a feed that fails contributes no entry and the call still returns:
\* the result is what the other fetches contributed, in order; after a
\* failing category feed the topic search is still made, and with no user
\* and a default feed that fails or is empty the result is empty.
C16_FeedFailureContributesNothing ==
    (/\ news.called /\ news.user # LookupFails
     /\ ~(/\ NoSearchCall
          /\ news.category \notin DOMAIN NEWS_FEEDS
          /\ news.user \in Users /\ news.prefs = "error")) =>
        /\ news.ret.kind = "return"
        /\ news.ret.value = EntriesAt(1) \o EntriesAt(2) \o EntriesAt(3)
        /\ Len(news.fetched) <= 3
        /\ (BlendCall /\ HasKnownCategory /\ HasTopics) => Len(news.fetched) >= 2
        /\ (/\ NoSearchCall /\ news.category \notin DOMAIN NEWS_FEEDS
            /\ news.user = None
            /\ news.fetched[1].found \in { FeedFails, 0 }) =>
               news.ret = Return(<<>>, None)

\* the category feed fails and the topic search finds 4 entries
C16_Witness ==
    /\ BlendCall /\ HasKnownCategory /\ HasTopics
    /\ news.fetched[1].found = FeedFails
    /\ news.fetched[2].found = 4
    /\ news.ret = Return(FirstEntries(news.fetched[2]), None)
    /\ Len(news.ret.value) = 4

\* C17: an exception of the user lookup, and an exception other than an
\* SQLAlchemyError raised while the preferences are read, reach the caller:
\* the call raises, having fetched nothing, and returns no result.
C17_PreferenceLookupErrorPropagates ==
    news.called =>
        /\ news.user = LookupFails =>
               news.ret.kind = "raise" /\ news.fetched = <<>>
        /\ (/\ NoSearchCall /\ news.category \notin DOMAIN NEWS_FEEDS
            /\ news.user \in Users /\ news.prefs = "error") =>
               news.ret = Raise("Exception") /\ news.fetched = <<>>

\* reading the preferences of a user with a category and topics raises
C17_Witness ==
    /\ NoSearchCall /\ news.category = NoStr
    /\ news.user \in Users /\ news.prefs = "error"
    /\ news.user.preferred_category = "World" /\ news.user.topics # <<>>
    /\ news.ret.kind = "raise"

-----------------------------------------------------------------------------
(* Properties of the callers of the AI helpers (SpecApp) *)

\* display_news answered with the page of news
PageShown == http.route = "display_news" /\ http.status = 200

\* the fetched entry at position i
EntryAt(i) == http.entries[i].entry

\* the position of entry i's text in the batch handed to
\* summarize_texts_batch: the entries with a summary up to i
BatchIndex(i) ==
    Cardinality({ j \in 1..i : EntryAt(j).summary # NoText })

\* C18: on the page of display_news the summary shown at position i is the
\* summary summarize_texts_batch returned for entry i's own text, or the
\* placeholder when entry i has no summary text; this for every list of
\* fetched entries, two entries with the same link included.
C18_SummaryShownIsOwn ==
    PageShown =>
        /\ Len(http.summaries) = Len(http.entries)
        /\ \A i \in 1..Len(http.entries) :
               http.summaries[i] =
                   IF EntryAt(i).summary = NoText THEN PLACEHOLDER
                   ELSE http.call.ret.value[BatchIndex(i)]

\* the call of the AI helper made for the request ended in the quota signal
QuotaSignalled == http.call.ret = Raise("RateLimitException")

\* the quota cases of the two AI calls of generate_newscast_content, on a
\* batch of one text: the signal ends the run with the user skipped
NewscastSkipsOnQuota ==
    \A c1 \in AppCases, c2 \in AppCases :
        LET r == NewscastFromTexts(7, <<>>, << Article("A", 2) >>, NoText, c1, c2,
                                   <<>>, 0, <<>>, "ok")
        IN  /\ r.http.error # "RateLimitException"
            /\ (c1[1] = "quota" \/ (c1[1] # "quota" /\ c2[1] = "quota")) =>
                   /\ r.http.body = "skipped"
                   /\ r.http.call.ret = Raise("RateLimitException")
                   /\ r.http.script = NoText

ExpectedTokenRow(h) ==
    [model_name |-> "AI_MODEL_NAME",
     user_id |-> IF h.user_id = 0 THEN "anonymous" ELSE "7",
     feature_name |-> IF h.route = "display_news" THEN "batch-summarization"
                      ELSE "anchor-script-rephrasing",
     prompt_tokens |-> h.call.ret.usage.prompt_tokens,
     completion_tokens |-> h.call.ret.usage.completion_tokens,
     total_tokens |-> h.call.ret.usage.total_tokens]

\* the AI helper returned usage data to display_news or generate_audio
UsageReturned(h) ==
    /\ h.route \in { "display_news", "generate_audio" }
    /\ h.call.api_calls = 1
    /\ h.call.ret.kind = "return"
    /\ h.call.ret.usage # None

\* C20: whenever summarize_texts_batch or rephrase_as_anchor returns usage
\* data to display_news or generate_audio, exactly one token-usage row with
\* the model name, the user id or "anonymous", the feature name and the three
\* counts is inserted, and the request is answered without an unhandled
\* error, display_news with the page that shows the AI summaries.
C20_UsageIsLoggedOnce ==
    [][ (http = NoHttp /\ UsageReturned(http')) =>
            /\ api_token_usage' = Append(api_token_usage, ExpectedTokenRow(http'))
            /\ http'.body # "unhandled"
            /\ http'.route = "display_news" =>
                   http'.status = 200 /\ http'.summaries # <<>>
      ]_vars

-----------------------------------------------------------------------------
(* Further properties of the AI helpers (SpecAI, SpecRate) *)

\* the positions of a text where a marker starts
MarkerStarts(s) == { i \in 1..Len(s) : MarkerEnd(s, i) > 0 }

\* the position where the k-th marker of a text starts
NthStart(s, k) ==
    CHOOSE i \in MarkerStarts(s) :
        Cardinality({ j \in MarkerStarts(s) : j <= i }) = k

\* the text between the k-th marker and the next one (or the end), trimmed
SegmentAfter(s, k) ==
    LET from == MarkerEnd(s, NthStart(s, k))
        to == IF k < Cardinality(MarkerStarts(s))
              THEN NthStart(s, k + 1) - 1 ELSE Len(s)
    IN  Strip(SubSeq(s, from, to))

\* C21: when the response holds exactly N markers for N articles the result
\* is the N trimmed segments that follow the markers, in their order of
\* appearance, with the usage data: what precedes the first marker is
\* dropped, the case of the marker word and the number in it play no part.
C21_SegmentsInOrderOfAppearance ==
    (/\ IsBatch /\ Readable /\ ai.texts # <<>>
     /\ MarkerCountOf[ai.response.text] = Len(ai.texts)) =>
        ai.ret = Return([k \in 1..Len(ai.texts) |->
                            SegmentAfter(ai.response.text, k)],
                        ai.response.usage_metadata)

\* two articles and the response "\nsummary2: bSUMMARY 1: a ": the summary
\* numbered 2 comes first and stays first
C21_Witness ==
    /\ IsBatch /\ Readable /\ Len(ai.texts) = 2
    /\ Len(ai.response.text) = 25
    /\ ai.response.text[9] = "2" /\ ai.response.text[21] = "1"
    /\ ai.ret.value = << <<"b">>, <<"a">> >>
    /\ ai.ret.usage # None

\* the call ended in the truncation fallback
FallbackCase ==
    /\ IsBatch /\ ai.texts # <<>>
    /\ \/ ai.outcome = "error"
       \/ Malformed
       \/ Readable /\ MarkerCountOf[ai.response.text] # Len(ai.texts)

\* C22: the fallback of an article of at most 150 characters is the article,
\* that of an article of 151 characters or more is its first 150 characters
\* followed by "..."; no fallback summary is longer than 153 characters.
C22_TruncationAtExactly150 ==
    FallbackCase =>
        /\ ai.ret.kind = "return"
        /\ \A i \in 1..Len(ai.texts) :
               LET text == ai.texts[i]
                   summary == ai.ret.value[i]
               IN  /\ Len(text) <= 150 => summary = text
                   /\ Len(text) >= 151 =>
                          summary = SubSeq(text, 1, 150) \o <<".", ".", ".">>
                   /\ Len(summary) <= 153

\* an article of exactly 150 characters and one of 151
C22_Witness ==
    /\ FallbackCase /\ Len(ai.texts) = 2
    /\ Len(ai.texts[1]) = 150 /\ Len(ai.texts[2]) = 151
    /\ ai.ret.value[1] = ai.texts[1]
    /\ Len(ai.ret.value[2]) = 153
    /\ ai.ret.value[2][150] # "z" /\ ai.ret.value[2][151] = "."

\* C23: a run of the policy stores a new event exactly when no event is
\* stored or the current time minus the most recent stored timestamp is more
\* than 23 hours (at exactly 23 hours nothing is stored); the older events
\* play no part.
C23_StoresIffOlderThan23Hours ==
    (ai.outcome = "quota" /\ ai.db = "ok") =>
        LET stores == ai.errors_before = <<>>
                          \/ ai.at - LatestOf(ai.errors_before) > 23
        IN  ai.errors_after = IF stores THEN Append(ai.errors_before, ai.at)
                              ELSE ai.errors_before

\* C24: when the log store fails while the policy reads or writes, no event
\* is stored and the caller still gets the quota signal, in both operations.
C24_StoreFailureIsAbsorbed ==
    (ai.outcome = "quota" /\ ai.db \in { "query_error", "commit_error" }) =>
        /\ ai.log_runs = 1
        /\ ai.errors_after = ai.errors_before
        /\ ai.ret = Raise("RateLimitException")

\* no event is stored yet, so the policy decides to store one, and the
\* commit fails
C24_Witness ==
    /\ ai.outcome = "quota" /\ ai.db = "commit_error"
    /\ ai.errors_before = <<>> /\ api_errors = <<>>
    /\ ai.ret.kind = "raise"

-----------------------------------------------------------------------------
(* Further properties of get_personalized_news (SpecNews) *)

\* C25: an SQLAlchemyError raised while the preferences are read is
\* swallowed: the call goes on to the default step, fetches the default feed
\* with limit 10 and returns its entries; it does not raise.
C25_DatabaseErrorFallsBackToDefault ==
    (/\ NoSearchCall /\ news.category \notin DOMAIN NEWS_FEEDS
     /\ news.user \in Users /\ news.prefs = "db_error") =>
        /\ Len(news.fetched) = 1
        /\ IsDefaultFetch(news.fetched[1])
        /\ news.ret = Return(FirstEntries(news.fetched[1]), None)

\* the preferences of a user with a category and topics cannot be read, the
\* default feed holds 4 entries
C25_Witness ==
    /\ NoSearchCall /\ news.category = NoStr
    /\ news.user \in Users /\ news.prefs = "db_error"
    /\ news.user.preferred_category = "World" /\ news.user.topics # <<>>
    /\ Len(news.ret.value) = 4

\* C26: whatever the search query, the category override, the preferences
\* and the feeds, the call returns at most 10 entries.
C26_AtMostTenEntries ==
    (news.called /\ news.ret.kind = "return") => Len(news.ret.value) <= 10

\* a category feed and a topic search that both hold more than 5 entries:
\* 5 and 5 are returned
C26_Witness ==
    /\ BlendCall /\ HasKnownCategory /\ HasTopics
    /\ news.fetched[1].found = MaxFeedLen /\ news.fetched[2].found = PAIR_LIMIT + 1
    /\ Len(news.ret.value) = 10

-----------------------------------------------------------------------------
(* The browser session between display_news and generate_audio (SpecApp) *)

\* the request answered by h called rephrase_as_anchor
RephraseCalled(h) == h.call.op = "rephrase_as_anchor"

\* the session holds combined summaries that are not the empty string
HoldsSummaries(sess) == sess # NoText /\ sess # <<>>

\* a request of the given route is answered in this step
AnswersRoute(route) == http = NoHttp /\ http'.route = route

\* C27: within one browser session generate_audio calls rephrase_as_anchor
\* exactly when the session holds non-empty combined summaries, hands it
\* those summaries, and answers 404 without a call otherwise; the summaries
\* of the session are only ever written by display_news, as the joined
\* summaries of the page it shows; a display_news with zero entries removes
\* them, and one that ends in the rate-limit page leaves them as they were.
C27_AudioNeedsSummariesOfDisplayNews ==
    [][ /\ AnswersRoute("generate_audio") =>
              /\ RephraseCalled(http') <=> HoldsSummaries(session)
              /\ RephraseCalled(http') => http'.call.texts = <<session>>
              /\ ~HoldsSummaries(session) => http'.status = 404
              /\ session' = session
        /\ session' # session =>
              /\ AnswersRoute("display_news") /\ http'.status = 200
              /\ session' = IF http'.summaries = <<>> THEN NoText
                            ELSE JoinSpace(http'.summaries)
        /\ (AnswersRoute("display_news") /\ http'.entries = <<>>) =>
              session' = NoText
        /\ (AnswersRoute("display_news") /\ http'.status = 503) =>
              session' = session
      ]_vars

\* generate_audio has called rephrase_as_anchor with the summaries an earlier
\* display_news stored, and returned the audio file
C27_Witness ==
    /\ http.route = "generate_audio" /\ RephraseCalled(http)
    /\ http.call.texts = <<session>> /\ HoldsSummaries(session)
    /\ http.status = 200

\* generate_audio finds the session without summaries and answers 404
C27_WitnessNoSummaries ==
    /\ http.route = "generate_audio" /\ ~RephraseCalled(http)
    /\ session = NoText /\ http.status = 404

\* display_news meets the quota signal while the session holds summaries
C27_WitnessRateLimit ==
    /\ http.route = "display_news" /\ http.status = 503
    /\ HoldsSummaries(session)

-----------------------------------------------------------------------------
(* Properties of the password reset (SpecReset) *)

\* a reset_password request is answered in this step
AnswersReset == reset = NoReset /\ reset'.route = "reset_password"

\* the request answered in this step changes a password
ChangesPassword == AnswersReset /\ reset'.changed

\* a successful reset leaves the user's token and expiry cleared
ResetClearsToken ==
    ChangesPassword =>
        /\ users'[reset'.email].reset_token = NoToken
        /\ users'[reset'.email].reset_token_expiry = NoExpiry

\* a token that is not the one stored for its user (it was cleared, or
\* replaced by a token issued later) is rejected and changes nothing
OnlyStoredTokenAccepted ==
    \A token \in IssuedTokens :
        (AnswersReset /\ reset'.token = token
            /\ users[token.email].reset_token # token) =>
                /\ reset' = ResetRejected(reset'.method, token)
                /\ users' = users

\* a token that has changed a password does not change one again
TokenUsedOnce == ChangesPassword => reset'.token \notin used_tokens

\* C28: a password-reset token changes a password at most once: a successful
\* reset clears the stored token and expiry, every later reset_password
\* request with the same token is rejected, and so is a token after a newer
\* one was issued for the same user.
C28_TokenChangesPasswordAtMostOnce ==
    [][ ResetClearsToken /\ OnlyStoredTokenAccepted /\ TokenUsedOnce ]_vars

\* what the client sees of an answer: the status, the flash message and the
\* page it is sent to
ResponseOf(answer) ==
    [status |-> answer.status, flash |-> answer.flash, page |-> answer.page]

-----------------------------------------------------------------------------
(* The daily generator (SpecApp) *)

\* the list fetched for the user holds an article with summary text
HasSummaryText(pairs) ==
    \E i \in 1..Len(pairs) : pairs[i].entry.summary \notin { NoText, <<>> }

\* C29: whenever at least one article fetched for a user has summary text
\* and no AI call hits the rate limit, generate_newscast_content returns a
\* non-empty anchor script.
C29_ScriptWheneverSummaryText ==
    (/\ http.route = "generate_newscast_content"
     /\ HasSummaryText(http.entries)
     /\ ~QuotaSignalled) =>
        /\ http.body = "script"
        /\ http.script # NoText /\ http.script # <<>>

====
